---- MODULE Spec2Model ----
(***************************************************************************)
(* Model of streamlit_app.py: the hybrid retrieval query run_hybrid_query  *)
(* (embed -> literature query -> fact query -> synthesize) and the chat    *)
(* shell that calls it once per user submission.                           *)
(*                                                                         *)
(* Strings are TLC strings (\o, Len, SubSeq).  A nullable value (a node    *)
(* property that may be missing) is None == <<>> or Some(v) == <<v>>.      *)
(* Similarity scores are in hundredths: 0.72 is 72.                        *)
(***************************************************************************)
EXTENDS Integers, Sequences, FiniteSets, TLC

VARIABLES
    db,             \* the backing graph data (which dataset the database holds)
    history,        \* st.session_state.history
    pc,             \* position of the script run / of run_hybrid_query
    user_in,        \* the submitted query text (query_text inside the call)
    q_vec,          \* the query embedding
    sess_open,      \* number of database sessions currently open
    chunk_res,      \* rows of the literature query
    triple_res,     \* rows of the fact query
    evidence_dump,  \* the list of evidence lines
    seen_triples,   \* the set of fact keys seen
    full_context,   \* the evidence bundle
    sys_prompt,     \* the prompt sent to the generative model
    ret,            \* run_hybrid_query's return value <<ans, raw_ev>>, <<>> if none
    calls,          \* external calls issued by the current script run, in order
    ok_calls,       \* those of them that returned without raising
    inflight,       \* external calls issued and not yet returned
    opened,         \* sessions opened by the current script run
    invocations,    \* calls of run_hybrid_query so far
    last_ev         \* per query text: the evidence returned by its last completed call

vars == <<db, history, pc, user_in, q_vec, sess_open, chunk_res, triple_res,
          evidence_dump, seen_triples, full_context, sys_prompt, ret, calls,
          ok_calls, inflight, opened, invocations, last_ev>>

-----------------------------------------------------------------------------
(* Bounds of the model *)

MaxChunks == 6

MaxEnts == 6

MaxSubmissions == 2

(* Constants of the program *)

TopK == 5

FactLimit == 15

Threshold == 72

SnippetLen == 300

-----------------------------------------------------------------------------
(* Values *)

None == <<>>

Some(v) == <<v>>

Min(a, b) == IF a < b THEN a ELSE b

\* the string made of n copies of c
RECURSIVE Rep(_, _)
Rep(c, n) ==
    IF n = 0 THEN ""
    ELSE LET half == Rep(c, n \div 2)
         IN  half \o half \o (IF n % 2 = 1 THEN c ELSE "")

\* Python's str() of a value inside an f-string: a missing value prints as None
Str(v) == IF v = None THEN "None" ELSE v[1]

Queries == {"q1", "q2"}

\* the embedding service is deterministic: one vector per text
EmbedOf(text) == IF text = "q1" THEN 1 ELSE 2

EmbedErrors == {"503 UNAVAILABLE"}

Answers == {"answer"}

-----------------------------------------------------------------------------
(* The backing data.  A dataset is [nChunks, nEnts, pat]: how many chunk   *)
(* nodes and entity nodes the graph holds and which of four contents.      *)

Patterns == 1..4

\* none, a few, as many as or more than the queries take
ChunkSizes == {0, 2, MaxChunks - 1, MaxChunks}

EntSizes == {0, 1, 4, MaxEnts - 1, MaxEnts}

DataSets == [nChunks : ChunkSizes, nEnts : EntSizes, pat : Patterns]

LongBody == Rep("x", 294)

\* text property of chunk node i: short, 299 characters and more, all
\* equal (303 characters), or missing on node 1
ChunkText(d, i) ==
    CASE d.pat = 1 -> Some("chunk" \o ToString(i))
      [] d.pat = 2 -> Some(ToString(i) \o LongBody \o Rep("x", i) \o "end")
      [] d.pat = 3 -> Some(LongBody \o "same text")
      [] OTHER     -> IF i = 1 THEN None ELSE Some("chunk" \o ToString(i))

\* similarity of chunk node i to a query vector
ChunkScore(i, vec) == IF vec = 1 THEN 100 - i ELSE 50 + i

Papers(d) == [i \in 1..d.nChunks |->
                [text |-> ChunkText(d, i),
                 score |-> [v \in 1..2 |-> ChunkScore(i, v)]]]

CollideNames == <<Some("A"), Some("B -> R -> C"), Some("A -> R -> B"),
                  Some("C"), None, Some("None")>>

\* name property of entity node i
EntName(d, i) ==
    IF d.pat = 4 /\ i <= Len(CollideNames) THEN CollideNames[i]
    ELSE Some("E" \o ToString(i))

\* similarity of entity node i to a query vector: under vector 1 the
\* scores are 74, 73, 72, 71, ...; under vector 2 they all exceed 0.72
EntScore(i, vec) == IF vec = 1 THEN 75 - i ELSE 80 + i

Ents(d) == [i \in 1..d.nEnts |->
              [name |-> EntName(d, i),
               score |-> [v \in 1..2 |-> EntScore(i, v)]]]

\* relationships: a chain, a complete graph, a chain with every
\* relationship stored twice (different evidence), or four relationships
\* among the entities of CollideNames
Rels(d) ==
    LET n == d.nEnts
        E(id, a, b, rel, ev) == [id |-> id, a |-> a, b |-> b, rel |-> rel, ev |-> ev]
    IN  CASE d.pat = 1 ->
               {E(i, i, i + 1, "INHIBITS", "p1") : i \in 1..(n - 1)}
          [] d.pat = 2 ->
               {E(p[1] * (n + 1) + p[2], p[1], p[2], "BINDS", "p1") :
                    p \in {q \in (1..n) \X (1..n) : q[1] < q[2]}}
          [] d.pat = 3 ->
               {E(2 * i - 1, i, i + 1, "INHIBITS", "p1") : i \in 1..(n - 1)}
                 \cup {E(2 * i, i, i + 1, "INHIBITS", "p2") : i \in 1..(n - 1)}
          [] OTHER ->
               {e \in {E(1, 1, 2, "R", "p1"), E(2, 3, 4, "R", "p1"),
                       E(3, 5, 4, "R", "p1"), E(4, 6, 4, "R", "p1")} :
                    e.a <= n /\ e.b <= n}

-----------------------------------------------------------------------------
(* The two Cypher queries *)

\* the elements of S as a sequence in increasing key order (keys distinct)
SeqByKey(S, key) ==
    [k \in 1..Cardinality(S) |->
        CHOOSE x \in S : Cardinality({y \in S : key[y] < key[x]}) = k - 1]

\* db.index.vector.queryNodes(index, k, vec): the indices of the k nodes
\* nearest to vec, best first (equal scores: lower node first)
QueryNodes(nodes, k, vec) ==
    LET Before(i, j) == \/ nodes[i].score[vec] > nodes[j].score[vec]
                        \/ nodes[i].score[vec] = nodes[j].score[vec] /\ i < j
        Rank(i) == Cardinality({j \in DOMAIN nodes : Before(j, i)})
        all == SeqByKey(DOMAIN nodes, [i \in DOMAIN nodes |-> Rank(i)])
    IN  SubSeq(all, 1, Min(k, Len(all)))

\* faulty variant: WHERE score >= 0.72
PassesThresholdInclusive(score) == score >= Threshold

\* WHERE score > 0.72
PassesThreshold(score) == score > Threshold

\* LIMIT n
Limit(rows, n) == SubSeq(rows, 1, Min(n, Len(rows)))

\* query A: the TopK chunk nodes nearest to vec, as (text, score) rows
QueryChunks(d, vec) ==
    LET nodes == Papers(d)
        hits == QueryNodes(nodes, TopK, vec)
    IN  [r \in 1..Len(hits) |->
            [text |-> nodes[hits[r]].text, score |-> nodes[hits[r]].score[vec]]]

\* query B: the TopK entity nodes nearest to vec, those over the threshold,
\* each matched with every relationship it has in either direction; rows
\* (s, rel, t, ev) come start by start, a start's relationships in id order
QueryTriples(d, vec) ==
    LET nodes == Ents(d)
        rels == Rels(d)
        hits == QueryNodes(nodes, TopK, vec)
        starts == SelectSeq(hits, LAMBDA i : PassesThreshold(nodes[i].score[vec]))
        big == 1 + (d.nEnts + 1) * (d.nEnts + 1)
        matches == {m \in [p : 1..Len(starts), r : rels] :
                        m.r.a = starts[m.p] \/ m.r.b = starts[m.p]}
        ordered == SeqByKey(matches, [m \in matches |-> m.p * big + m.r.id])
        Row(m) == LET start == starts[m.p]
                      end == IF m.r.a = start THEN m.r.b ELSE m.r.a
                  IN  [s |-> nodes[start].name, rel |-> m.r.rel,
                       t |-> nodes[end].name, ev |-> Some(m.r.ev)]
    IN  Limit([k \in 1..Len(ordered) |-> Row(ordered[k])], FactLimit)

-----------------------------------------------------------------------------
(* The row loops and the string building of run_hybrid_query *)

LitHeader == "=== LITERATURE SNIPPETS ==="

FactsHeader == "\n=== KNOWLEDGE GRAPH FACTS ==="

\* faulty variant: no truncation
SnippetWhole(text) == text

\* text[:300]
Snippet(text) == SubSeq(text, 1, Min(SnippetLen, Len(text)))

\* f"- {rec['text'][:300]}..."
LitLine(rec) == "- " \o Snippet(rec.text[1]) \o "..."

\* slicing None raises TypeError
LitRowRaises(rec) == rec.text = None

\* for rec in chunk_res: evidence_dump.append(...)
RECURSIVE LitLoop(_, _)
LitLoop(dump, rows) ==
    IF rows = <<>> THEN dump
    ELSE LitLoop(Append(dump, LitLine(Head(rows))), Tail(rows))

\* f"{row['s']} -> {row['rel']} -> {row['t']}"
TripleKey(row) == Str(row.s) \o " -> " \o row.rel \o " -> " \o Str(row.t)

\* faulty variant: the membership test is dropped
AlwaysUnseen(triple, seen) == TRUE

\* triple not in seen_triples
IsUnseen(triple, seen) == triple \notin seen

\* faulty variant: the key is not recorded
MarkSeenForgotten(seen, triple) == seen

\* seen_triples.add(triple)
MarkSeen(seen, triple) == seen \cup {triple}

\* evidence_dump.append("=== LITERATURE SNIPPETS ===")
WithLitHeader(dump) == Append(dump, LitHeader)

\* faulty variant: the facts header is put in front of the list
FactsHeaderFirst(dump) == <<FactsHeader>> \o dump

\* evidence_dump.append("\n=== KNOWLEDGE GRAPH FACTS ===")
WithFactsHeader(dump) == Append(dump, FactsHeader)

\* f"FACT: {triple}"
FactLine(triple) == "FACT: " \o triple

\* faulty variant: the set of an earlier call is used again
StaleSeen == seen_triples

\* seen_triples = set()
FreshSeen == {}

\* for row in triple_res: ... ; st is [dump, seen]
RECURSIVE FactLoop(_, _)
FactLoop(st, rows) ==
    IF rows = <<>> THEN st
    ELSE LET triple == TripleKey(Head(rows))
         IN  FactLoop(IF IsUnseen(triple, st.seen)
                      THEN [dump |-> Append(st.dump, FactLine(triple)),
                            seen |-> MarkSeen(st.seen, triple)]
                      ELSE st,
                      Tail(rows))

\* "\n".join(lines)
RECURSIVE Join(_)
Join(lines) ==
    IF lines = <<>> THEN ""
    ELSE IF Len(lines) = 1 THEN lines[1]
    ELSE lines[1] \o "\n" \o Join(Tail(lines))

\* the instruction template
PromptHead == "\n    You are ARC (Analysis for Research Collaboration). \n    Answer the user's question based strictly on the provided evidence.\n    \n    EVIDENCE:\n    "

PromptMid == "\n    \n    QUESTION: "

PromptTail == "\n    "

SysPrompt(context, query) == PromptHead \o context \o PromptMid \o query \o PromptTail

\* faulty variant: the message loses its label
EmbedErrorReturnNoLabel(e) == <<"Error: " \o e, "">>

\* return f"Embedding Error: {e}", ""
EmbedErrorReturn(e) == <<"Embedding Error: " \o e, "">>

\* faulty variant: the embedding call is tried again
AfterEmbedErrorRetry == "call"

\* where control goes when the embedding call raises: the return statement
AfterEmbedError == "returned"

\* faulty variant: the session is not closed
ExitSessionLeak(n) == n

\* leaving the with block closes the session
ExitSession(n) == n - 1

UserMsg(content) == [role |-> "user", content |-> content]

AssistantMsg(content) == [role |-> "assistant", content |-> content]

\* faulty variant: the history is replaced by the new message
HistoryReplace(h, msg) == <<msg>>

\* st.session_state.history.append(msg)
HistoryAppend(h, msg) == Append(h, msg)

NumUser(h) == Len(SelectSeq(h, LAMBDA m : m.role = "user"))

-----------------------------------------------------------------------------
(* The state machine *)

Init ==
    /\ db \in DataSets
    /\ history = <<>>
    /\ pc = "idle"
    /\ user_in = None
    /\ q_vec = 0
    /\ sess_open = 0
    /\ chunk_res = <<>>
    /\ triple_res = <<>>
    /\ evidence_dump = <<>>
    /\ seen_triples = {}
    /\ full_context = ""
    /\ sys_prompt = ""
    /\ ret = <<>>
    /\ calls = <<>>
    /\ ok_calls = {}
    /\ inflight = {}
    /\ opened = 0
    /\ invocations = 0
    /\ last_ev = [q \in Queries |-> None]

\* the locals of a call are gone when it ends; seen_triples stands for the
\* storage the set lives in and is given its value only where the code does
DropLocals ==
    /\ q_vec' = 0
    /\ chunk_res' = <<>>
    /\ triple_res' = <<>>
    /\ evidence_dump' = <<>>
    /\ full_context' = ""
    /\ sys_prompt' = ""
    /\ ret' = <<>>

\* an external call is issued
Issue(call) ==
    /\ calls' = Append(calls, call)
    /\ inflight' = inflight \cup {call}

\* an external call returns normally
Returned(call) ==
    /\ ok_calls' = ok_calls \cup {call}
    /\ inflight' = inflight \ {call}

\* an external call raises
Raised(call) ==
    /\ inflight' = inflight \ {call}
    /\ UNCHANGED ok_calls

\* user_in = st.chat_input(...); if user_in: history.append(user message)
Submit(q) ==
    /\ pc = "idle"
    /\ NumUser(history) < MaxSubmissions
    /\ user_in' = Some(q)
    /\ history' = HistoryAppend(history, UserMsg(q))
    /\ pc' = "call"
    /\ calls' = <<>>
    /\ ok_calls' = {}
    /\ opened' = 0
    /\ UNCHANGED <<db, q_vec, sess_open, chunk_res, triple_res, evidence_dump,
                   seen_triples, full_context, sys_prompt, ret, inflight,
                   invocations, last_ev>>

\* run_hybrid_query(user_in) is entered: client.models.embed_content(...) is issued
EmbedIssue ==
    /\ pc = "call"
    /\ invocations' = invocations + 1
    /\ Issue("embed")
    /\ pc' = "embed_wait"
    /\ UNCHANGED <<db, history, user_in, q_vec, sess_open, chunk_res, triple_res,
                   evidence_dump, seen_triples, full_context, sys_prompt, ret,
                   ok_calls, opened, last_ev>>

\* q_vec = emb_resp.embeddings[0].values; evidence_dump = []
EmbedReturn ==
    /\ pc = "embed_wait"
    /\ Returned("embed")
    /\ q_vec' = EmbedOf(user_in[1])
    /\ evidence_dump' = <<>>
    /\ pc' = "session"
    /\ UNCHANGED <<db, history, user_in, sess_open, chunk_res, triple_res,
                   seen_triples, full_context, sys_prompt, ret, calls, opened,
                   invocations, last_ev>>

\* except Exception as e: return f"Embedding Error: {e}", ""
EmbedRaise(e) ==
    /\ pc = "embed_wait"
    /\ Raised("embed")
    /\ ret' = EmbedErrorReturn(e)
    /\ pc' = AfterEmbedError
    /\ UNCHANGED <<db, history, user_in, q_vec, sess_open, chunk_res, triple_res,
                   evidence_dump, seen_triples, full_context, sys_prompt, calls,
                   opened, invocations, last_ev>>

\* with driver.session() as sess: sess.run(query A) is issued
OpenSession ==
    /\ pc = "session"
    /\ sess_open' = sess_open + 1
    /\ opened' = opened + 1
    /\ Issue("lit")
    /\ pc' = "lit_wait"
    /\ UNCHANGED <<db, history, user_in, q_vec, chunk_res, triple_res,
                   evidence_dump, seen_triples, full_context, sys_prompt, ret,
                   ok_calls, invocations, last_ev>>

\* chunk_res = sess.run(...)
LitReturn ==
    /\ pc = "lit_wait"
    /\ Returned("lit")
    /\ chunk_res' = QueryChunks(db, q_vec)
    /\ pc' = "lit_loop"
    /\ UNCHANGED <<db, history, user_in, q_vec, sess_open, triple_res,
                   evidence_dump, seen_triples, full_context, sys_prompt, ret,
                   calls, opened, invocations, last_ev>>

\* an exception leaves the with block: the session is closed and the
\* exception goes on to the caller
Propagate ==
    /\ sess_open' = ExitSession(sess_open)
    /\ pc' = "raised"
    /\ UNCHANGED <<db, history, user_in, q_vec, chunk_res, triple_res,
                   evidence_dump, seen_triples, full_context, sys_prompt, ret,
                   calls, opened, invocations, last_ev>>

\* sess.run(query A) raises
LitRaise ==
    /\ pc = "lit_wait"
    /\ Raised("lit")
    /\ Propagate

\* evidence_dump.append(header); for rec in chunk_res: ...; then
\* sess.run(query B) is issued
LitRows ==
    /\ pc = "lit_loop"
    /\ \A r \in DOMAIN chunk_res : ~LitRowRaises(chunk_res[r])
    /\ evidence_dump' = LitLoop(WithLitHeader(evidence_dump), chunk_res)
    /\ Issue("fact")
    /\ pc' = "fact_wait"
    /\ UNCHANGED <<db, history, user_in, q_vec, sess_open, chunk_res, triple_res,
                   seen_triples, full_context, sys_prompt, ret, ok_calls, opened,
                   invocations, last_ev>>

\* a row's text is missing: rec['text'][:300] raises
LitRowsRaise ==
    /\ pc = "lit_loop"
    /\ \E r \in DOMAIN chunk_res : LitRowRaises(chunk_res[r])
    /\ Propagate
    /\ UNCHANGED <<inflight, ok_calls>>

\* triple_res = sess.run(...)
FactReturn ==
    /\ pc = "fact_wait"
    /\ Returned("fact")
    /\ triple_res' = QueryTriples(db, q_vec)
    /\ pc' = "fact_loop"
    /\ UNCHANGED <<db, history, user_in, q_vec, sess_open, chunk_res,
                   evidence_dump, seen_triples, full_context, sys_prompt, ret,
                   calls, opened, invocations, last_ev>>

\* sess.run(query B) raises
FactRaise ==
    /\ pc = "fact_wait"
    /\ Raised("fact")
    /\ Propagate

\* evidence_dump.append(header); seen_triples = set(); for row in
\* triple_res: ...; the with block ends; full_context = "\n".join(...);
\* sys_prompt = ...; client.models.generate_content(...) is issued
FactRows ==
    /\ pc = "fact_loop"
    /\ LET st == FactLoop([dump |-> WithFactsHeader(evidence_dump),
                           seen |-> FreshSeen], triple_res)
       IN  /\ evidence_dump' = st.dump
           /\ seen_triples' = st.seen
           /\ full_context' = Join(st.dump)
           /\ sys_prompt' = SysPrompt(Join(st.dump), user_in[1])
    /\ sess_open' = ExitSession(sess_open)
    /\ Issue("synth")
    /\ pc' = "synth_wait"
    /\ UNCHANGED <<db, history, user_in, q_vec, chunk_res, triple_res, ret,
                   ok_calls, opened, invocations, last_ev>>

\* return final.text, full_context
SynthReturn(ans) ==
    /\ pc = "synth_wait"
    /\ Returned("synth")
    /\ ret' = <<ans, full_context>>
    /\ pc' = "returned"
    /\ UNCHANGED <<db, history, user_in, q_vec, sess_open, chunk_res, triple_res,
                   evidence_dump, seen_triples, full_context, sys_prompt, calls,
                   opened, invocations, last_ev>>

\* generate_content raises: nothing catches it
SynthRaise ==
    /\ pc = "synth_wait"
    /\ Raised("synth")
    /\ pc' = "raised"
    /\ UNCHANGED <<db, history, user_in, q_vec, sess_open, chunk_res, triple_res,
                   evidence_dump, seen_triples, full_context, sys_prompt, ret,
                   calls, opened, invocations, last_ev>>

\* ans, raw_ev = run_hybrid_query(user_in); ...; history.append(assistant message)
ShellAppend ==
    /\ pc = "returned"
    /\ history' = HistoryAppend(history, AssistantMsg(ret[1]))
    /\ last_ev' = IF "synth" \in ok_calls
                  THEN [last_ev EXCEPT ![user_in[1]] = Some(ret[2])]
                  ELSE last_ev
    /\ pc' = "idle"
    /\ user_in' = None
    /\ DropLocals
    /\ UNCHANGED <<db, sess_open, seen_triples, calls, ok_calls, inflight,
                   opened, invocations>>

\* the exception ends the script run; the session state is kept
ScriptStop ==
    /\ pc = "raised"
    /\ pc' = "idle"
    /\ user_in' = None
    /\ DropLocals
    /\ UNCHANGED <<db, history, sess_open, seen_triples, calls, ok_calls,
                   inflight, opened, invocations, last_ev>>

Next ==
    \/ \E q \in Queries : Submit(q)
    \/ EmbedIssue
    \/ EmbedReturn
    \/ \E e \in EmbedErrors : EmbedRaise(e)
    \/ OpenSession
    \/ LitReturn
    \/ LitRaise
    \/ LitRows
    \/ LitRowsRaise
    \/ FactReturn
    \/ FactRaise
    \/ FactRows
    \/ \E ans \in Answers : SynthReturn(ans)
    \/ SynthRaise
    \/ ShellAppend
    \/ ScriptStop

Spec == Init /\ [][Next]_vars

-----------------------------------------------------------------------------
(* Vocabulary of the properties *)

StartsWith(str, prefix) ==
    Len(str) >= Len(prefix) /\ SubSeq(str, 1, Len(prefix)) = prefix

EndsWith(str, suffix) ==
    Len(str) >= Len(suffix)
        /\ SubSeq(str, Len(str) - Len(suffix) + 1, Len(str)) = suffix

Contains(str, part) ==
    \E i \in 1..(Len(str) - Len(part) + 1) :
        SubSeq(str, i, i + Len(part) - 1) = part

Pipeline == <<"embed", "lit", "fact", "synth">>

\* the evidence bundle of the current call has been built and handed on
BundleBuilt ==
    /\ pc \in {"synth_wait", "returned", "raised"}
    /\ \E i \in DOMAIN calls : calls[i] = "synth"

\* the embedding call of the current script run has raised
EmbedFailed ==
    /\ pc # "idle"
    /\ calls = <<"embed">>
    /\ inflight = {}
    /\ "embed" \notin ok_calls

\* positions of the FACT lines and of the snippet lines in evidence_dump
FactIdx == {i \in DOMAIN evidence_dump : StartsWith(evidence_dump[i], "FACT: ")}

LitIdx == {i \in DOMAIN evidence_dump : StartsWith(evidence_dump[i], "- ")}

\* fewer than TopK nodes of the index score higher than node i
AmongNearest(nodes, i, vec) ==
    Cardinality({j \in DOMAIN nodes : nodes[j].score[vec] > nodes[i].score[vec]}) < TopK

-----------------------------------------------------------------------------
\* C1: when the embedding call raises, run_hybrid_query returns an answer
\* containing "Embedding Error" and the empty evidence string, and that
\* call opens no database session and issues no graph query and no
\* generative-model request.
C1_EmbeddingError ==
    EmbedFailed =>
        /\ pc = "returned"
        /\ Len(ret) = 2
        /\ Contains(ret[1], "Embedding Error")
        /\ ret[2] = ""
        /\ opened = 0
        /\ sess_open = 0
        /\ \A c \in {"lit", "fact", "synth"} : \A i \in DOMAIN calls : calls[i] # c

C1_Witness ==
    /\ EmbedFailed
    /\ pc = "returned"
    /\ ret = <<"Embedding Error: 503 UNAVAILABLE", "">>

\* C2: the fact query returns at most 15 rows, and once the bundle is built
\* no two FACT lines of it are the same string, so there are at most 15.
C2_FactsUnique ==
    /\ Len(triple_res) <= FactLimit
    /\ BundleBuilt =>
          /\ \A i, j \in FactIdx : i # j => evidence_dump[i] # evidence_dump[j]
          /\ Cardinality(FactIdx) <= FactLimit

C2_Witness ==
    /\ pc = "synth_wait"
    /\ Len(triple_res) = FactLimit
    /\ \E i, j \in DOMAIN triple_res :
          i < j /\ TripleKey(triple_res[i]) = TripleKey(triple_res[j])
    /\ FactIdx # {}

\* C3: the bundle handed to the synthesizer and returned as raw evidence is
\* the literature header, one line per literature row, the facts header,
\* then the FACT lines, joined in that order, also when either query
\* returned no row.
C3_BundleOrder ==
    BundleBuilt =>
        LET k == Len(chunk_res)
            n == Len(evidence_dump)
        IN  /\ n >= k + 2
            /\ evidence_dump[1] = LitHeader
            /\ LitIdx = 2..(k + 1)
            /\ evidence_dump[k + 2] = FactsHeader
            /\ FactIdx = (k + 3)..n
            /\ n - (k + 2) = Cardinality({TripleKey(triple_res[r]) : r \in DOMAIN triple_res})
            /\ full_context = Join(evidence_dump)
            /\ sys_prompt = PromptHead \o full_context \o PromptMid \o user_in[1] \o PromptTail
            /\ pc = "returned" => ret[2] = full_context

C3_Witness ==
    /\ pc = "returned"
    /\ chunk_res = <<>>
    /\ triple_res = <<>>
    /\ ret[2] = "=== LITERATURE SNIPPETS ===\n\n=== KNOWLEDGE GRAPH FACTS ==="

\* C4: the literature query returns the at most 5 best-scoring chunks, best
\* first, and the literature lines are one per row in that order, each
\* "- ", the first 300 characters of the row's text (all of it when it is
\* shorter) and "..."; rows with equal text give separate lines.
C4_Literature ==
    LET nodes == Papers(db)
        k == Len(chunk_res)
    IN  /\ k <= TopK
        /\ pc \in {"lit_loop", "fact_wait", "fact_loop", "synth_wait"} =>
              /\ k = Min(TopK, Len(nodes))
              /\ \A r \in 1..(k - 1) : chunk_res[r].score > chunk_res[r + 1].score
              /\ \A i \in DOMAIN nodes :
                    AmongNearest(nodes, i, q_vec) <=>
                        \E r \in 1..k : chunk_res[r] =
                            [text |-> nodes[i].text, score |-> nodes[i].score[q_vec]]
        /\ pc \in {"fact_wait", "fact_loop", "synth_wait"} =>
              /\ Cardinality(LitIdx) = k
              /\ \A r \in 1..k :
                    LET text == chunk_res[r].text[1]
                        line == evidence_dump[r + 1]
                    IN  /\ Len(line) <= SnippetLen + 5
                        /\ \E m \in 0..SnippetLen :
                              /\ m <= Len(text)
                              /\ m = SnippetLen \/ m = Len(text)
                              /\ line = "- " \o SubSeq(text, 1, m) \o "..."

C4_Witness ==
    /\ pc = "fact_wait"
    /\ db.nChunks > TopK
    /\ Len(chunk_res) = TopK
    /\ chunk_res[1].text = chunk_res[2].text
    /\ Len(chunk_res[1].text[1]) > SnippetLen
    /\ evidence_dump[2] = evidence_dump[3]
    /\ Len(evidence_dump[2]) = SnippetLen + 5

\* C5: every row of the fact query, and so every FACT line, starts from an
\* entity that is among the 5 nearest and scores strictly more than 0.72;
\* an entity scoring 0.72 or less is never expanded.
C5_Threshold ==
    LET nodes == Ents(db)
        Expanded(e) == /\ nodes[e].score[q_vec] > Threshold
                       /\ AmongNearest(nodes, e, q_vec)
        RowsOf(e) == {[s |-> nodes[e].name, rel |-> r.rel,
                       t |-> nodes[IF r.a = e THEN r.b ELSE r.a].name] :
                          r \in {x \in Rels(db) : x.a = e \/ x.b = e}}
    IN  /\ \A r \in DOMAIN triple_res :
              \E e \in DOMAIN nodes :
                  /\ Expanded(e)
                  /\ [s |-> triple_res[r].s, rel |-> triple_res[r].rel,
                      t |-> triple_res[r].t] \in RowsOf(e)
        /\ \A i \in FactIdx :
              \E e \in DOMAIN nodes :
                  /\ Expanded(e)
                  /\ \E row \in RowsOf(e) :
                        evidence_dump[i] = "FACT: " \o Str(row.s) \o " -> "
                                               \o row.rel \o " -> " \o Str(row.t)

C5_Witness ==
    /\ pc = "synth_wait"
    /\ \E e \in DOMAIN Ents(db) :
          /\ Ents(db)[e].score[q_vec] = Threshold
          /\ \E r \in Rels(db) : r.a = e
          /\ \E r \in Rels(db) : r.b = e
    /\ evidence_dump[Len(evidence_dump)] = "FACT: E2 -> INHIBITS -> E3"

\* C6: a session is open only between its opening and the end of the with
\* block; it is closed when the block ends or an exception leaves it; a
\* failure inside the block reaches the caller (nothing is returned); no
\* session is open once the invocation has ended.
C6_SessionScope ==
    LET inside == pc \in {"lit_wait", "lit_loop", "fact_wait", "fact_loop"}
        failedInside ==
            /\ pc # "idle"
            /\ \/ \E c \in {"lit", "fact"} :
                     /\ \E i \in DOMAIN calls : calls[i] = c
                     /\ c \notin ok_calls
                     /\ c \notin inflight
               \/ /\ pc # "lit_loop"
                  /\ \E r \in DOMAIN chunk_res : chunk_res[r].text = None
    IN  /\ sess_open = (IF inside THEN 1 ELSE 0)
        /\ opened <= 1
        /\ failedInside => pc = "raised" /\ ret = <<>> /\ sess_open = 0

C6_Witness ==
    /\ pc = "raised"
    /\ opened = 1
    /\ sess_open = 0
    /\ \E r \in DOMAIN chunk_res : chunk_res[r].text = None

\* C7: a submission runs run_hybrid_query once; its external calls are a
\* prefix of embed, lit, fact, synth, so each is issued at most once and in
\* that order; a call is issued only after the one before it returned
\* normally; at most one call is in flight.
C7_Sequential ==
    /\ Len(calls) <= Len(Pipeline)
    /\ calls = SubSeq(Pipeline, 1, Len(calls))
    /\ \A i \in 2..Len(calls) : calls[i - 1] \in ok_calls /\ calls[i - 1] \notin inflight
    /\ Cardinality(inflight) <= 1
    /\ inflight \subseteq {calls[i] : i \in DOMAIN calls}
    /\ invocations = NumUser(history) - (IF pc = "call" THEN 1 ELSE 0)

C7_Witness ==
    /\ pc = "returned"
    /\ calls = Pipeline
    /\ ok_calls = {"embed", "lit", "fact", "synth"}
    /\ invocations = MaxSubmissions

\* C8 as stated: whenever the shell is idle, the history is a sequence of
\* pairs, a user message immediately followed by an assistant message.
C8_Original ==
    pc = "idle" =>
        /\ Len(history) = 2 * NumUser(history)
        /\ \A i \in DOMAIN history :
              history[i].role = (IF i % 2 = 1 THEN "user" ELSE "assistant")

\* C8 amended: the history only grows at its end; a submission appends the
\* user message; a script run in which run_hybrid_query returns ends by
\* appending the answer right after that user message; a script run in
\* which it raises ends with the user message last and no answer.
C8_History ==
    [][ /\ Len(history') >= Len(history)
        /\ SubSeq(history', 1, Len(history)) = history
        /\ (pc = "idle" /\ pc' # "idle") =>
              history' = history \o <<[role |-> "user", content |-> user_in'[1]]>>
        /\ (pc = "returned" /\ pc' = "idle") =>
              /\ history[Len(history)] = [role |-> "user", content |-> user_in[1]]
              /\ history' = history \o <<[role |-> "assistant", content |-> ret[1]]>>
        /\ (pc = "raised" /\ pc' = "idle") =>
              /\ history[Len(history)] = [role |-> "user", content |-> user_in[1]]
              /\ history' = history
        /\ (pc # "idle" /\ pc' # "idle") => history' = history
      ]_vars

C8_Witness ==
    /\ pc = "idle"
    /\ Len(history) = 3
    /\ history[1].role = "user"
    /\ history[2].role = "user"
    /\ history[3] = [role |-> "assistant", content |-> "answer"]

\* C9: a call that returns a bundle for a query text returns the same
\* bundle as the last completed call for that text did (the data and the
\* services being unchanged): facts of the earlier call are not suppressed.
C9_Idempotent ==
    (pc = "returned" /\ "synth" \in ok_calls /\ last_ev[user_in[1]] # None) =>
        ret[2] = last_ev[user_in[1]][1]

C9_Witness ==
    /\ pc = "returned"
    /\ "synth" \in ok_calls
    /\ last_ev[user_in[1]] # None
    /\ seen_triples # {}
    /\ FactIdx # {}

\* C10 as stated: there is exactly one FACT line per distinct
\* (subject, relation, object) triple among the rows.
C10_Original ==
    BundleBuilt =>
        Cardinality(FactIdx) =
            Cardinality({<<triple_res[r].s, triple_res[r].rel, triple_res[r].t>> :
                            r \in DOMAIN triple_res})

\* C10 amended: the FACT lines are the first-occurrence deduplication of the
\* rows' rendered "subject -> relation -> object" strings: one line per
\* distinct string, none lost, in the order of first occurrence.
C10_FirstOccurrence ==
    BundleBuilt =>
        LET Key(r) == TripleKey(triple_res[r])
            First(line) == CHOOSE r \in DOMAIN triple_res :
                              /\ "FACT: " \o Key(r) = line
                              /\ \A x \in 1..(r - 1) : Key(x) # Key(r)
        IN  /\ {evidence_dump[i] : i \in FactIdx} =
                   {"FACT: " \o Key(r) : r \in DOMAIN triple_res}
            /\ \A i, j \in FactIdx :
                  i < j => First(evidence_dump[i]) < First(evidence_dump[j])

C10_Witness ==
    /\ pc = "synth_wait"
    /\ \E i, j \in DOMAIN triple_res :
          /\ triple_res[i].s # triple_res[j].s
          /\ triple_res[i].s # None
          /\ triple_res[j].s # None
          /\ TripleKey(triple_res[i]) = TripleKey(triple_res[j])
    /\ Cardinality(FactIdx) < Cardinality({<<triple_res[r].s, triple_res[r].rel,
                                             triple_res[r].t>> : r \in DOMAIN triple_res})

====
